---- MODULE Spec2Model ----
(***************************************************************************)
(* Model of dynauto: the job controller (dynauto/jobctrl.py) and its       *)
(* helpers (dynauto/influxdb_utils.py) on top of an InfluxDB measurement.  *)
(*                                                                         *)
(* The store is the content of the "job" measurement: a set of points,     *)
(* each identified by its tag set and its timestamp.  Timestamps are the   *)
(* writer's clock formatted with one-second resolution, so they are        *)
(* modelled as the integer number of seconds.  Field keys are strings and  *)
(* are case sensitive, as they are in InfluxDB and in Python dictionaries. *)
(* A call that terminates the process (sys.exit) or raises is recorded as  *)
(* an outcome of the call, so that the calls that follow it are those of   *)
(* another process on the same store.                                      *)
(***************************************************************************)
EXTENDS FiniteSets, Integers, Sequences, TLC

VARIABLES store, now, last, procs

vars == <<store, now, last, procs>>

(***************************************************************************)
(* Bounds of the model.                                                    *)
(***************************************************************************)
MaxTime == 1
MaxPoints == 2
MaxData == 2

(***************************************************************************)
(* JobStatus and the point schema.                                         *)
(***************************************************************************)
\* JobStatus.statuses(): the member names, in declaration order.
statuses == <<"IDLE", "RUNNING", "FAILED", "DONE">>

JobStatus == {statuses[i] : i \in 1..Len(statuses)}

\* Two (task, campaign, block) triples: the controller that is called and
\* another one, whose task differs in its block only.
Self == [task |-> "reco", campaign |-> "c1", block |-> 1]

Other == [task |-> "reco", campaign |-> "c1", block |-> 2]

JobIds == {1, 2}

\* jid=None, the default of set_status.
None == 0

\* The empty dictionary (also fields=None: both are falsy in Python).
EmptyDict == [k \in {} |-> 0]

\* Caller-supplied field mappings: none, a status key, a tag key.
StatusMaps == {EmptyDict, [DONE |-> 1], [id |-> 9]}

\* Caller-supplied auxiliary fields: one with two values, and one whose
\* name contains 'last_'.
AuxMaps == {EmptyDict, [nevt |-> 7], [nevt |-> 8, last_run |-> 3]}

\* The field keys that occur, in the (byte-wise) order in which InfluxDB
\* lists the columns of a wildcard query.  All fields hold integers.
FieldOrder ==
    <<"DONE", "FAILED", "IDLE", "RUNNING", "id", "last_run", "nevt", "run">>

(***************************************************************************)
(* Python helpers.                                                         *)
(***************************************************************************)
\* str.replace(old, ''): remove every non-overlapping occurrence of old.
RECURSIVE replace(_, _)
replace(s, old) ==
    IF Len(s) < Len(old) THEN s
    ELSE IF SubSeq(s, 1, Len(old)) = old
         THEN replace(SubSeq(s, Len(old) + 1, Len(s)), old)
         ELSE SubSeq(s, 1, 1) \o replace(SubSeq(s, 2, Len(s)), old)

\* sub in s, for strings.
contains(s, sub) ==
    \E i \in 1..(Len(s) - Len(sub) + 1) : SubSeq(s, i, i + Len(sub) - 1) = sub

\* dict.update(e): the keys of e win.
update(d, e) ==
    [k \in DOMAIN d \cup DOMAIN e |-> IF k \in DOMAIN e THEN e[k] ELSE d[k]]

\* d.pop(key), keeping the dictionary.
pop(d, key) == [k \in DOMAIN d \ {key} |-> d[k]]

\* sum() of the values d[k] for k in K.
RECURSIVE SumOver(_, _)
SumOver(d, K) ==
    IF K = {} THEN 0
    ELSE LET k == CHOOSE x \in K : TRUE IN d[k] + SumOver(d, K \ {k})

\* The outcome of a call: a returned value or a raised exception (sys.exit
\* raises SystemExit).
Return(v) == [raised |-> "", ret |-> v]

Raise(e) == [raised |-> e, ret |-> FALSE]

\* sys.exit(message)
Exit(message) == [raised |-> "SystemExit", ret |-> message]

(***************************************************************************)
(* The InfluxDB measurement "job", as the controller uses it.              *)
(***************************************************************************)
\* The field keys F in column order.
Ordered(F) == SelectSeq(FieldOrder, LAMBDA f : f \in F)

\* self.match_tags: "task" = '..' AND "campaign" = '..' AND "block" = '..'
\* match_tags without the block.
match_tags_any_block(self, p) ==
    /\ p.tags.task = self.task
    /\ p.tags.campaign = self.campaign

match_tags(self, p) ==
    /\ p.tags.task = self.task
    /\ p.tags.campaign = self.campaign
    /\ p.tags.block = self.block

\* ... FROM "job" WHERE {match_tags}
where_task(st, self) == {p \in st : match_tags(self, p)}

\* ... FROM "job" WHERE {match_tags} AND "id" = '{jid}'
where_job(st, self, jid) == {p \in where_task(st, self) : p.tags.id = jid}

\* The job ids of the series of a task (GROUP BY "id").
group_by_id(st, self) == {p.tags.id : p \in where_task(st, self)}

field_keys(pts) == UNION {DOMAIN p.fields : p \in pts}

\* last("f") over the points of one series: the value of f in the most
\* recent point that has the field.
last_value(pts, f) ==
    LET have == {p \in pts : f \in DOMAIN p.fields}
        p == CHOOSE x \in have : \A y \in have : y.time <= x.time
    IN  p.fields[f]

\* SELECT last(*) over the points of one series: no row when there is no
\* point, else one row with the columns 'time' and 'last_<field>'.
select_last(pts) ==
    IF pts = {} THEN <<>>
    ELSE LET F == Ordered(field_keys(pts))
         IN  << [keys |-> <<"time">> \o [i \in 1..Len(F) |-> "last_" \o F[i]],
                 d |-> [k \in {"time"} \cup {"last_" \o f : f \in field_keys(pts)} |->
                          IF k = "time" THEN 0
                          ELSE last_value(pts, SubSeq(k, 6, Len(k)))]] >>

\* db.write_points: a point with the tag set and timestamp of a stored
\* point is merged into it, the new field values replacing the old ones.
write_point(st, p) ==
    LET old == {q \in st : q.tags = p.tags /\ q.time = p.time}
    IN  (st \ old) \cup
        { [p EXCEPT !.fields =
              IF old = {} THEN p.fields
              ELSE update((CHOOSE q \in old : TRUE).fields, p.fields)] }

RECURSIVE write_points(_, _)
write_points(st, data) ==
    IF data = <<>> THEN st
    ELSE write_points(write_point(st, Head(data)), Tail(data))

\* DELETE FROM "job" WHERE {match_tags}
delete_task(st, self) == st \ where_task(st, self)

(***************************************************************************)
(* dynauto/influxdb_utils.py                                               *)
(***************************************************************************)
\* sanity_check that looks at the first point only.
sanity_check_first_point(data) ==
    \/ Len(data) = 0
    \/ ~ \E f \in DOMAIN data[1].fields : f \in DOMAIN data[1].tags

\* True unless a field key of some point is also one of its tag keys.
sanity_check(data) ==
    \A i \in 1..Len(data) :
        ~ \E f \in DOMAIN data[i].fields : f \in DOMAIN data[i].tags

\* The loop over the keys of one row: d[key.replace('last_', '')] = d.pop(key)
RECURSIVE reformat_keys(_, _)
reformat_keys(d, keys) ==
    IF keys = <<>> THEN d
    ELSE LET key == Head(keys)
         IN  reformat_keys(update(pop(d, key), (replace(key, "last_") :> d[key])),
                           Tail(keys))

reformat_last(data) ==
    [i \in 1..Len(data) |-> reformat_keys(data[i].d, data[i].keys)]

(***************************************************************************)
(* dynauto/jobctrl.py: class JobCtrl.  self is the (task, campaign, block) *)
(* triple the controller was constructed with.                             *)
(***************************************************************************)
\* self.global_data: the point template, all statuses set to 0.
global_data(self) == [tags |-> self, fields |-> [sts \in JobStatus |-> 0]]

\* data["tags"]["id"] = str(jid) on a copy of the template.
tags_of(self, jid) ==
    [task |-> self.task, campaign |-> self.campaign, block |-> self.block, id |-> jid]

\* task_exist that needs more than one point to see the task.
task_exist_off_by_one(st, self) == Cardinality(where_task(st, self)) > 1

task_exist(st, self) == Cardinality(where_task(st, self)) > 0

\* SELECT sum(*) FROM (SELECT last(*) FROM "job" WHERE .. GROUP BY id):
\* one row with the columns 'time' and 'sum_last_<field>' for the (numeric)
\* fields, no row when the task has no point.
select_sum_last(st, self) ==
    LET ids == group_by_id(st, self)
        F == field_keys(where_task(st, self))
        total(f) ==
            LET J == {j \in ids : f \in field_keys(where_job(st, self, j))}
            IN  SumOver([j \in J |-> last_value(where_job(st, self, j), f)], J)
        O == Ordered(F)
    IN  IF ids = {} THEN <<>>
        ELSE << [keys |-> <<"time">> \o [i \in 1..Len(O) |-> "sum_last_" \o O[i]],
                 d |-> [k \in {"time"} \cup {"sum_last_" \o f : f \in F} |->
                          IF k = "time" THEN 0
                          ELSE total(SubSeq(k, 10, Len(k)))]] >>

task_completed(st, self) ==
    LET task_sts == reformat_last(select_sum_last(st, self))
    IN  IF Len(task_sts) = 0 THEN Return(FALSE)
        ELSE IF "sum_done" \notin DOMAIN task_sts[1] THEN Raise("KeyError")
        ELSE Return(task_sts[1]["sum_done"] =
                    SumOver(task_sts[1],
                            {k \in DOMAIN task_sts[1] : contains(k, "sum")}))

\* The points create_task builds: IDLE set to 1, then the caller's fields of
\* the job assigned over the template's.
create_data(self, jids, fields, subtime) ==
    [i \in 1..Len(jids) |->
        [tags |-> tags_of(self, jids[i]),
         time |-> subtime,
         fields |-> update([global_data(self).fields EXCEPT !["IDLE"] = 1],
                           IF Len(fields) > 0 THEN fields[i] ELSE EmptyDict)]]

\* create_task: the outcome, the store it leaves and the points it wrote.
create_task(st, self, jids, fields, recreate, subtime) ==
    IF Len(jids) = 0
    THEN [out |-> Exit("Job ids list is empty"), store |-> st, written |-> <<>>]
    ELSE IF task_exist(st, self) /\ ~ recreate
    THEN [out |-> Exit("Task already exist"), store |-> st, written |-> <<>>]
    ELSE LET st1 == IF recreate THEN delete_task(st, self) ELSE st
             data == create_data(self, jids, fields, subtime)
         IN  IF ~ sanity_check(data)
             THEN [out |-> Return(FALSE), store |-> st1, written |-> <<>>]
             ELSE [out |-> Return(TRUE), store |-> write_points(st1, data),
                   written |-> data]

\* get_job(jid, last=True)
get_job_last(st, self, jid) == reformat_last(select_last(where_job(st, self, jid)))

\* get_job(jid, last=False): the points of the job; the columns of the
\* result are 'time', the field keys and the tag keys.
get_job(st, self, jid) == where_job(st, self, jid)

columns(pts) == {"time"} \cup field_keys(pts) \cup {"task", "campaign", "block", "id"}

\* The truth value of point[key] for a row of SELECT *.
truthy(p, key) ==
    IF key \in DOMAIN p.tags \/ key = "time" THEN TRUE
    ELSE IF key \notin DOMAIN p.fields THEN FALSE
    ELSE p.fields[key] # 0

get_jobs(st, self) ==
    [sts \in JobStatus |->
        {jid \in group_by_id(st, self) :
            last_value(where_job(st, self, jid), sts) > 0}]

get_nretries(st, self, jid) ==
    LET pts == get_job(st, self, jid)
    IN  IF pts = {} THEN Return(0)
        ELSE IF "failed" \notin columns(pts) THEN Raise("KeyError")
        ELSE Return(Cardinality({p \in pts : truthy(p, "failed")}))

\* status_data that sets IDLE, as create_task does, whatever the status.
status_data_always_idle(self, jid, status, fields, prev_data, time) ==
    LET prev == IF fields # EmptyDict
                THEN update(prev_data[Len(prev_data)], fields)
                ELSE prev_data[Len(prev_data)]
        base == [global_data(self).fields EXCEPT !["IDLE"] = 1]
    IN  [tags |-> tags_of(self, jid),
         time |-> time,
         fields |-> [f \in DOMAIN base \cup (DOMAIN prev \ {"time"}) |->
                       IF f \in DOMAIN base THEN base[f] ELSE prev[f]]]

\* The point set_status builds from the job's previous data.
status_data(self, jid, status, fields, prev_data, time) ==
    LET prev == IF fields # EmptyDict
                THEN update(prev_data[Len(prev_data)], fields)
                ELSE prev_data[Len(prev_data)]
        base == [global_data(self).fields EXCEPT ![status] = 1]
    IN  [tags |-> tags_of(self, jid),
         time |-> time,
         fields |-> [f \in DOMAIN base \cup (DOMAIN prev \ {"time"}) |->
                       IF f \in DOMAIN base THEN base[f] ELSE prev[f]]]

\* set_status that refuses to leave the DONE status.
set_status_no_reopen(st, self, jid, status, fields, time) ==
    LET prev_data == get_job_last(st, self, jid)
        data == status_data(self, jid, status, fields, prev_data, time)
    IN  IF jid = None
        THEN [out |-> Exit("Please specify a vaild job id"), store |-> st,
              written |-> <<>>]
        ELSE IF Len(prev_data) = 0
        THEN [out |-> Exit("Job not found"), store |-> st, written |-> <<>>]
        ELSE IF status \notin JobStatus
        THEN [out |-> Exit("Specified status is not valid"), store |-> st,
              written |-> <<>>]
        ELSE IF prev_data[Len(prev_data)]["DONE"] = 1 /\ status # "DONE"
        THEN [out |-> Exit("Specified status is not valid"), store |-> st,
              written |-> <<>>]
        ELSE IF SumOver(data.fields, JobStatus) # 1
        THEN [out |-> Exit("More then one status is being set"), store |-> st,
              written |-> <<>>]
        ELSE IF ~ sanity_check(<<data>>)
        THEN [out |-> Return(FALSE), store |-> st, written |-> <<>>]
        ELSE [out |-> Return(TRUE), store |-> write_points(st, <<data>>),
              written |-> <<data>>]

\* set_status: the outcome, the store it leaves and the points it wrote.
set_status(st, self, jid, status, fields, time) ==
    LET prev_data == get_job_last(st, self, jid)
        data == status_data(self, jid, status, fields, prev_data, time)
    IN  IF jid = None
        THEN [out |-> Exit("Please specify a vaild job id"), store |-> st,
              written |-> <<>>]
        ELSE IF Len(prev_data) = 0
        THEN [out |-> Exit("Job not found"), store |-> st, written |-> <<>>]
        ELSE IF status \notin JobStatus
        THEN [out |-> Exit("Specified status is not valid"), store |-> st,
              written |-> <<>>]
        ELSE IF SumOver(data.fields, JobStatus) # 1
        THEN [out |-> Exit("More then one status is being set"), store |-> st,
              written |-> <<>>]
        ELSE IF ~ sanity_check(<<data>>)
        THEN [out |-> Return(FALSE), store |-> st, written |-> <<>>]
        ELSE [out |-> Return(TRUE), store |-> write_points(st, <<data>>),
              written |-> <<data>>]

\* A wrapper calls set_status and drops the value it returns: the call
\* returns None unless set_status exits.
dropped(r) ==
    [r EXCEPT !.out = IF r.out.raised = "" THEN Return(None) ELSE r.out]

idle(st, self, jid, fields, time) ==
    dropped(set_status(st, self, jid, "IDLE", fields, time))

running(st, self, jid, fields, time) ==
    dropped(set_status(st, self, jid, "RUNNING", fields, time))

failed(st, self, jid, fields, time) ==
    dropped(set_status(st, self, jid, "FAILED", fields, time))

done(st, self, jid, fields, time) ==
    dropped(set_status(st, self, jid, "DONE", fields, time))

\* d[key] on a dictionary.
getitem(d, key) ==
    IF key \in DOMAIN d THEN Return(d[key]) ELSE Raise("KeyError")

get_idle(st, self) == getitem(get_jobs(st, self), "IDLE")

get_running(st, self) == getitem(get_jobs(st, self), "running")

get_failed(st, self) == getitem(get_jobs(st, self), "failed")

get_done(st, self) == getitem(get_jobs(st, self), "done")

\* SELECT last("f") FROM "job" WHERE {match_tags}: no row when no point of
\* the task has the field, else one row with the time of the most recent
\* point that has it and the column 'last'.
select_last_field(pts, f) ==
    LET have == {p \in pts : f \in DOMAIN p.fields}
        p == CHOOSE x \in have : \A y \in have : y.time <= x.time
    IN  IF have = {} THEN <<>>
        ELSE << [keys |-> <<"time", "last">>,
                 d |-> [k \in {"time", "last"} |->
                          IF k = "time" THEN p.time ELSE p.fields[f]]] >>

\* task_end_time: <<>> is None and <<t>> the datetime parsed from the
\* timestamp of second t.
task_end_time(st, self) ==
    LET completed == task_completed(st, self)
        task_sts == reformat_last(select_last_field(where_task(st, self), "done"))
    IN  IF completed.raised # "" THEN completed
        ELSE IF ~ completed.ret THEN Return(<<>>)
        ELSE IF Len(task_sts) = 0 THEN Raise("IndexError")
        ELSE Return(<<task_sts[1]["time"]>>)

(***************************************************************************)
(* The state machine: calls on the controller Self, one at a time, and the *)
(* clock.  The store starts with the task of another controller, Other,    *)
(* already created.  last records the most recent call: its arguments, its *)
(* outcome, the points it wrote and the store before it.                   *)
(***************************************************************************)
NoCall ==
    [op |-> "none", jid |-> None, status |-> "IDLE", fields |-> EmptyDict,
     jids |-> <<>>, jfields |-> <<>>, recreate |-> FALSE,
     out |-> Return(FALSE), written |-> <<>>, before |-> {}, data |-> <<>>]

\* No concurrent call is in progress.
NoProcs ==
    [call |-> <<>>, pc |-> <<>>, prev_data |-> <<>>, time |-> <<>>,
     out |-> <<>>, log |-> <<>>, store0 |-> {}]

\* The jids lists over the job ids J.
JidLists(J) ==
    {<<>>} \cup {<<j>> : j \in J} \cup
    {<<jk[1], jk[2]>> : jk \in {x \in J \X J : x[1] < x[2]}}

\* The fields lists for n jobs: none, or one mapping per job, at most one
\* of them not empty.
FieldLists(n, FM) ==
    {<<>>} \cup
    {[i \in 1..n |-> IF i = k THEN f ELSE EmptyDict] : k \in 1..n, f \in FM}

Init ==
    /\ store = write_points({}, create_data(Other, <<1>>, <<>>, 0))
    /\ now = 0
    /\ last = NoCall
    /\ procs = NoProcs

\* A second passes on the writers' clock.
Tick ==
    /\ now < MaxTime
    /\ now' = now + 1
    /\ UNCHANGED <<store, last, procs>>

\* A call is evaluated once and r is its result.
CreateTask(jids, fields, recreate) ==
    \E r \in {create_task(store, Self, jids, fields, recreate, now)} :
        /\ Cardinality(where_task(r.store, Self)) <= MaxPoints
        /\ store' = r.store
        /\ last' = [NoCall EXCEPT !.op = "create_task", !.jids = jids,
                        !.jfields = fields, !.recreate = recreate,
                        !.out = r.out, !.written = r.written, !.before = store]
        /\ UNCHANGED <<now, procs>>

SetStatus(jid, status, fields) ==
    \E r \in {set_status(store, Self, jid, status, fields, now)} :
        /\ Cardinality(where_task(r.store, Self)) <= MaxPoints
        /\ store' = r.store
        /\ last' = [NoCall EXCEPT !.op = "set_status", !.jid = jid,
                        !.status = status, !.fields = fields,
                        !.out = r.out, !.written = r.written, !.before = store]
        /\ UNCHANGED <<now, procs>>

GetJobs ==
    /\ last' = [NoCall EXCEPT !.op = "get_jobs",
                    !.out = Return(get_jobs(store, Self)), !.before = store]
    /\ UNCHANGED <<store, now, procs>>

GetNretries(jid) ==
    /\ last' = [NoCall EXCEPT !.op = "get_nretries", !.jid = jid,
                    !.out = get_nretries(store, Self, jid), !.before = store]
    /\ UNCHANGED <<store, now, procs>>

TaskCompleted ==
    /\ last' = [NoCall EXCEPT !.op = "task_completed",
                    !.out = task_completed(store, Self), !.before = store]
    /\ UNCHANGED <<store, now, procs>>

Idle(jid, fields) ==
    \E r \in {idle(store, Self, jid, fields, now)} :
        /\ Cardinality(where_task(r.store, Self)) <= MaxPoints
        /\ store' = r.store
        /\ last' = [NoCall EXCEPT !.op = "idle", !.jid = jid, !.status = "IDLE",
                        !.fields = fields, !.out = r.out, !.written = r.written,
                        !.before = store]
        /\ UNCHANGED <<now, procs>>

Running(jid, fields) ==
    \E r \in {running(store, Self, jid, fields, now)} :
        /\ Cardinality(where_task(r.store, Self)) <= MaxPoints
        /\ store' = r.store
        /\ last' = [NoCall EXCEPT !.op = "running", !.jid = jid,
                        !.status = "RUNNING", !.fields = fields, !.out = r.out,
                        !.written = r.written, !.before = store]
        /\ UNCHANGED <<now, procs>>

Failed(jid, fields) ==
    \E r \in {failed(store, Self, jid, fields, now)} :
        /\ Cardinality(where_task(r.store, Self)) <= MaxPoints
        /\ store' = r.store
        /\ last' = [NoCall EXCEPT !.op = "failed", !.jid = jid,
                        !.status = "FAILED", !.fields = fields, !.out = r.out,
                        !.written = r.written, !.before = store]
        /\ UNCHANGED <<now, procs>>

Done(jid, fields) ==
    \E r \in {done(store, Self, jid, fields, now)} :
        /\ Cardinality(where_task(r.store, Self)) <= MaxPoints
        /\ store' = r.store
        /\ last' = [NoCall EXCEPT !.op = "done", !.jid = jid, !.status = "DONE",
                        !.fields = fields, !.out = r.out, !.written = r.written,
                        !.before = store]
        /\ UNCHANGED <<now, procs>>

GetIdle ==
    /\ last' = [NoCall EXCEPT !.op = "get_idle", !.status = "IDLE",
                    !.out = get_idle(store, Self), !.before = store]
    /\ UNCHANGED <<store, now, procs>>

GetRunning ==
    /\ last' = [NoCall EXCEPT !.op = "get_running", !.status = "RUNNING",
                    !.out = get_running(store, Self), !.before = store]
    /\ UNCHANGED <<store, now, procs>>

GetFailed ==
    /\ last' = [NoCall EXCEPT !.op = "get_failed", !.status = "FAILED",
                    !.out = get_failed(store, Self), !.before = store]
    /\ UNCHANGED <<store, now, procs>>

GetDone ==
    /\ last' = [NoCall EXCEPT !.op = "get_done", !.status = "DONE",
                    !.out = get_done(store, Self), !.before = store]
    /\ UNCHANGED <<store, now, procs>>

TaskEndTime ==
    /\ last' = [NoCall EXCEPT !.op = "task_end_time",
                    !.out = task_end_time(store, Self), !.before = store]
    /\ UNCHANGED <<store, now, procs>>

\* The calls with job ids from J and caller's field mappings from FM.
Calls(J, FM) ==
    \/ Tick
    \/ \E jids \in JidLists(J), recreate \in BOOLEAN :
          \E fields \in FieldLists(Len(jids), FM) :
             CreateTask(jids, fields, recreate)
    \/ \E jid \in J, status \in JobStatus, fields \in FM :
          SetStatus(jid, status, fields)
    \/ SetStatus(None, "IDLE", EmptyDict)
    \/ GetJobs
    \/ \E jid \in J : GetNretries(jid)
    \/ TaskCompleted

\* Callers that pass no field, a status key or a tag key.
Next == Calls(JobIds, StatusMaps)

Spec == Init /\ [][Next]_vars

\* Callers that pass auxiliary fields, for one job.
NextAux == Calls({1}, AuxMaps)

SpecAux == Init /\ [][NextAux]_vars

\* The points sanity_check is called with: the template with the fields of
\* a caller, some of them keys of the tags.
PointInputs ==
    {[tags |-> tags_of(Self, jid), time |-> 0,
      fields |-> update(global_data(Self).fields, f)] :
        jid \in JobIds, f \in StatusMaps \cup AuxMaps \cup {[task |-> 1]}}

\* The lists of at most MaxData points.
DataLists == UNION {[1..n -> PointInputs] : n \in 0..MaxData}

SanityCheck(data) ==
    /\ last' = [NoCall EXCEPT !.op = "sanity_check", !.data = data,
                    !.out = Return(sanity_check(data)), !.before = store]
    /\ UNCHANGED <<store, now, procs>>

NextSanity == \E data \in DataLists : SanityCheck(data)

SpecSanity == Init /\ [][NextSanity]_vars

\* The calls of the wrappers and of the per-status queries, on tasks that
\* create_task seeds.
NextApi ==
    \/ Tick
    \/ \E jids \in JidLists(JobIds), recreate \in BOOLEAN :
          \E fields \in FieldLists(Len(jids), StatusMaps) :
             CreateTask(jids, fields, recreate)
    \/ \E jid \in JobIds, fields \in StatusMaps : Idle(jid, fields)
    \/ \E jid \in JobIds, fields \in StatusMaps : Running(jid, fields)
    \/ \E jid \in JobIds, fields \in StatusMaps : Failed(jid, fields)
    \/ \E jid \in JobIds, fields \in StatusMaps : Done(jid, fields)
    \/ GetIdle
    \/ GetRunning
    \/ GetFailed
    \/ GetDone
    \/ TaskEndTime

SpecApi == Init /\ [][NextApi]_vars

(***************************************************************************)
(* Concurrent calls: two processes, each with its own controller for the   *)
(* same (task, campaign, block), run one create_task or set_status call    *)
(* each.  A call is a sequence of steps, the queries and writes on the     *)
(* store and the reading of the clock, and the steps of the two calls      *)
(* interleave.  procs.log lists the processes in the order of their        *)
(* writes, procs.store0 is the store when the calls start.                 *)
(***************************************************************************)
ProcIds == {1, 2}

RaceCalls ==
    {[op |-> "set_status", jid |-> jid, status |-> status, jids |-> <<>>,
      recreate |-> FALSE] : jid \in JobIds, status \in JobStatus}
    \cup
    {[op |-> "create_task", jid |-> None, status |-> "IDLE", jids |-> jids,
      recreate |-> recreate] : jids \in JidLists(JobIds), recreate \in BOOLEAN}

\* The task has no point, or jobs 1 and 2 created with an auxiliary field.
RaceStores ==
    LET st == write_points({}, create_data(Other, <<1>>, <<>>, 0))
    IN  {st, write_points(st, create_data(Self, <<1, 2>>,
                                          <<[nevt |-> 7], [nevt |-> 7]>>, 0))}

InitRace ==
    /\ store \in RaceStores
    /\ now = 0
    /\ last = NoCall
    /\ \E call \in [ProcIds -> RaceCalls] :
          procs = [call |-> call,
                   pc |-> [p \in ProcIds |-> "start"],
                   prev_data |-> [p \in ProcIds |-> <<>>],
                   time |-> [p \in ProcIds |-> 0],
                   out |-> [p \in ProcIds |-> Return(FALSE)],
                   log |-> <<>>,
                   store0 |-> store]

\* set_status: the query of the job's previous data and the checks on it.
Read(p) ==
    /\ procs.pc[p] = "start"
    /\ procs.call[p].op = "set_status"
    /\ \E prev_data \in {get_job_last(store, Self, procs.call[p].jid)} :
          procs' = IF Len(prev_data) = 0
                   THEN [procs EXCEPT !.pc[p] = "exit",
                                      !.out[p] = Exit("Job not found")]
                   ELSE [procs EXCEPT !.pc[p] = "stamp",
                                      !.prev_data[p] = prev_data]
    /\ UNCHANGED <<store, now, last>>

\* create_task: the checks on jids and on the existence of the task.
Check(p) ==
    /\ procs.pc[p] = "start"
    /\ procs.call[p].op = "create_task"
    /\ procs' = IF Len(procs.call[p].jids) = 0
                THEN [procs EXCEPT !.pc[p] = "exit",
                                   !.out[p] = Exit("Job ids list is empty")]
                ELSE IF task_exist(store, Self) /\ ~ procs.call[p].recreate
                THEN [procs EXCEPT !.pc[p] = "exit",
                                   !.out[p] = Exit("Task already exist")]
                ELSE IF procs.call[p].recreate
                THEN [procs EXCEPT !.pc[p] = "delete"]
                ELSE [procs EXCEPT !.pc[p] = "stamp"]
    /\ UNCHANGED <<store, now, last>>

\* create_task(recreate=True): the DELETE query.
Delete(p) ==
    /\ procs.pc[p] = "delete"
    /\ store' = delete_task(store, Self)
    /\ procs' = [procs EXCEPT !.pc[p] = "stamp"]
    /\ UNCHANGED <<now, last>>

\* The call reads the clock for the timestamp of its points.
Stamp(p) ==
    /\ procs.pc[p] = "stamp"
    /\ procs' = [procs EXCEPT !.pc[p] = "write", !.time[p] = now]
    /\ UNCHANGED <<store, now, last>>

\* The points are built, validated and written.
Write(p) ==
    /\ procs.pc[p] = "write"
    /\ LET call == procs.call[p]
           data == IF call.op = "set_status"
                   THEN << status_data(Self, call.jid, call.status, EmptyDict,
                                       procs.prev_data[p], procs.time[p]) >>
                   ELSE create_data(Self, call.jids, <<>>, procs.time[p])
       IN  IF call.op = "set_status" /\ SumOver(data[1].fields, JobStatus) # 1
           THEN /\ procs' = [procs EXCEPT !.pc[p] = "exit",
                                 !.out[p] = Exit("More then one status is being set")]
                /\ UNCHANGED store
           ELSE IF ~ sanity_check(data)
           THEN /\ procs' = [procs EXCEPT !.pc[p] = "done",
                                          !.out[p] = Return(FALSE)]
                /\ UNCHANGED store
           ELSE /\ store' = write_points(store, data)
                /\ procs' = [procs EXCEPT !.pc[p] = "done",
                                          !.out[p] = Return(TRUE),
                                          !.log = Append(procs.log, p)]
    /\ UNCHANGED <<now, last>>

NextRace ==
    \/ Tick
    \/ \E p \in ProcIds : Read(p)
    \/ \E p \in ProcIds : Check(p)
    \/ \E p \in ProcIds : Delete(p)
    \/ \E p \in ProcIds : Stamp(p)
    \/ \E p \in ProcIds : Write(p)

SpecRace == InitRace /\ [][NextRace]_vars

\* Both concurrent calls have returned or exited.
AllDone == \A p \in ProcIds : procs.pc[p] \in {"done", "exit"}

\* Every stored point carries the four status fields, and every field key
\* is one of FieldOrder.
TypeOK ==
    /\ now \in 0..MaxTime
    /\ \A p \in store :
          /\ JobStatus \subseteq DOMAIN p.fields
          /\ \A f \in DOMAIN p.fields : \E i \in 1..Len(FieldOrder) : FieldOrder[i] = f
          /\ p.time \in 0..MaxTime

(***************************************************************************)
(* Properties.                                                             *)
(***************************************************************************)
\* The last call was a create_task or set_status call that returned True.
Succeeded == last.out.raised = "" /\ last.out.ret = TRUE

\* C1: after successful create_task and set_status calls, get_jobs() puts
\* every job id that has a point into exactly one of the four buckets, the
\* one of the job's most recent status (IDLE after create_task, the
\* requested status after set_status), whatever fields the callers passed.
C1_OneBucket ==
    LET Buckets(jid) == {sts \in JobStatus : jid \in get_jobs(store, Self)[sts]}
    IN  /\ \A jid \in group_by_id(store, Self) : Cardinality(Buckets(jid)) = 1
        /\ (last.op = "set_status" /\ Succeeded) =>
              Buckets(last.jid) = {last.status}
        /\ (last.op = "create_task" /\ Succeeded) =>
              \A i \in 1..Len(last.jids) : Buckets(last.jids[i]) = {"IDLE"}

\* C2: task_completed() returns true if and only if the task has at least
\* one point and the last recorded status of every job is DONE, and false
\* otherwise.
C2_Completed ==
    LET pts(jid) == where_job(last.before, Self, jid)
        all_done ==
            /\ group_by_id(last.before, Self) # {}
            /\ \A jid \in group_by_id(last.before, Self) :
                  \A sts \in JobStatus :
                     last_value(pts(jid), sts) = IF sts = "DONE" THEN 1 ELSE 0
    IN  last.op = "task_completed" =>
           /\ last.out.raised = ""
           /\ last.out.ret = all_done

\* C3: get_nretries(j) is the number of successful set_status(j, FAILED)
\* calls since the task was last created.  Stated call by call: it is 0 for
\* the jobs of a successful create_task, a successful set_status(j, FAILED)
\* adds one to it, and any other successful set_status(j, ..) keeps it.
C3_Retries ==
    LET after(jid) == get_nretries(store, Self, jid)
        prior(jid) == get_nretries(last.before, Self, jid)
    IN  /\ (last.op = "create_task" /\ Succeeded) =>
              \A i \in 1..Len(last.jids) :
                 /\ after(last.jids[i]).raised = ""
                 /\ after(last.jids[i]).ret = 0
        /\ (last.op = "set_status" /\ Succeeded) =>
              /\ prior(last.jid).raised = ""
              /\ after(last.jid).raised = ""
              /\ after(last.jid).ret =
                    prior(last.jid).ret + (IF last.status = "FAILED" THEN 1 ELSE 0)

\* C4: a create_task call that succeeds on a task with no prior point
\* writes one point per job id of jids, tagged (task, campaign, block, id),
\* each with IDLE = 1 and RUNNING = FAILED = DONE = 0, whatever fields the
\* caller passed.
C4_AllIdle ==
    (last.op = "create_task" /\ Succeeded /\ ~ task_exist(last.before, Self)) =>
       /\ Len(last.written) = Len(last.jids)
       /\ \A i \in 1..Len(last.written) :
             /\ last.written[i].tags = tags_of(Self, last.jids[i])
             /\ \A sts \in JobStatus :
                   last.written[i].fields[sts] = IF sts = "IDLE" THEN 1 ELSE 0

\* C5: create_task on a task that has points, with recreate false, exits
\* with a precondition error, and the store is as it was before the call.
C5_NoDuplicate ==
    (last.op = "create_task" /\ ~ last.recreate /\ where_task(last.before, Self) # {}) =>
       /\ last.out.raised = "SystemExit"
       /\ last.written = <<>>
       /\ store = last.before

C5_Witness ==
    /\ last.op = "create_task"
    /\ ~ last.recreate
    /\ Len(last.jids) > 0
    /\ where_task(last.before, Self) # {}
    /\ last.out.raised = "SystemExit"
    /\ last.out.ret = "Task already exist"

\* C6: create_task(jids, recreate=true) on an existing task leaves, of that
\* task, only the points of the new jids; get_jobs() then holds exactly the
\* new job ids, all IDLE, get_nretries is 0 for each of them, and the points
\* of the other triples are untouched.
C6_Recreate ==
    (/\ last.op = "create_task"
     /\ last.recreate
     /\ last.jfields = <<>>
     /\ Succeeded
     /\ where_task(last.before, Self) # {}) =>
       LET new == {last.jids[i] : i \in 1..Len(last.jids)}
       IN  /\ where_task(store, Self) = {last.written[i] : i \in 1..Len(last.written)}
           /\ get_jobs(store, Self) =
                 [sts \in JobStatus |-> IF sts = "IDLE" THEN new ELSE {}]
           /\ \A jid \in new :
                 /\ get_nretries(store, Self, jid).raised = ""
                 /\ get_nretries(store, Self, jid).ret = 0
           /\ store \ where_task(store, Self) =
                 last.before \ where_task(last.before, Self)

\* C7: every point written by set_status has the flag of the requested
\* status at 1 and the three others at 0, and so has the stored point,
\* for every job, previous status and caller's fields.
C7_OneStatus ==
    last.op = "set_status" =>
       \A i \in 1..Len(last.written) :
          /\ \A sts \in JobStatus :
                last.written[i].fields[sts] = IF sts = last.status THEN 1 ELSE 0
          /\ \E p \in store :
                /\ p.tags = last.written[i].tags
                /\ p.time = last.written[i].time
                /\ \A sts \in JobStatus : p.fields[sts] = last.written[i].fields[sts]

C7_Witness ==
    /\ last.op = "set_status"
    /\ Len(last.written) = 1
    /\ last.status = "RUNNING"
    /\ last.fields = [DONE |-> 1]
    /\ last_value(where_job(last.before, Self, last.jid), "FAILED") = 1

\* C8: a set_status call on an existing job whose fields set the flag of
\* another status to 1 exits with the 'more than one status' error and
\* writes no point.
C8_Overlap ==
    (/\ last.op = "set_status"
     /\ where_job(last.before, Self, last.jid) # {}
     /\ \E sts \in JobStatus \ {last.status} :
           sts \in DOMAIN last.fields /\ last.fields[sts] = 1) =>
       /\ last.out.raised = "SystemExit"
       /\ last.out.ret = "More then one status is being set"
       /\ last.written = <<>>
       /\ store = last.before

\* C9: the point written by set_status has every auxiliary field of the
\* job's most recent prior point, with its value, except the fields the
\* caller passes, which have the caller's value.
C9_CarryForward ==
    (last.op = "set_status" /\ Succeeded) =>
       LET pts == where_job(last.before, Self, last.jid)
           prior == CHOOSE p \in pts : \A q \in pts : q.time <= p.time
           new == last.written[1].fields
       IN  /\ \A f \in DOMAIN last.fields \ JobStatus :
                 f \in DOMAIN new /\ new[f] = last.fields[f]
           /\ \A f \in DOMAIN prior.fields \ (JobStatus \cup DOMAIN last.fields) :
                 f \in DOMAIN new /\ new[f] = prior.fields[f]

\* C10: a create_task or set_status call that builds a point with a field
\* key that is also a tag key returns false, and the store is as it was
\* before the call.
C10_Validated ==
    /\ (/\ last.op = "create_task"
        /\ last.out.raised = ""
        /\ ~ sanity_check(create_data(Self, last.jids, last.jfields, 0))) =>
          (last.out.ret = FALSE /\ store = last.before)
    /\ (/\ last.op = "set_status"
        /\ last.out.raised = ""
        /\ \E f \in DOMAIN last.fields : f \in DOMAIN tags_of(Self, last.jid)) =>
          (last.out.ret = FALSE /\ store = last.before)

\* C11: a wrapper call (idle, running, failed, done) whose point fails the
\* validation, so that the write is skipped, has an outcome that differs from
\* that of the same call without the caller's fields, whose point is written.
C11_Visible ==
    (/\ last.op \in {"idle", "running", "failed", "done"}
     /\ last.out.raised = ""
     /\ last.written = <<>>) =>
       LET ok == dropped(set_status(last.before, Self, last.jid, last.status,
                                    EmptyDict, now))
       IN  ok.written # <<>> => last.out # ok.out

\* C12: set_status on a job that has a point, to any of the four statuses
\* and from any last status (the same status and DONE back to IDLE
\* included), with fields that pass the validation, succeeds, and get_jobs()
\* then lists the job under the target status.
C12_AnyTransition ==
    (/\ last.op = "set_status"
     /\ last.jid # None
     /\ where_job(last.before, Self, last.jid) # {}
     /\ \A f \in DOMAIN last.fields : f \notin DOMAIN tags_of(Self, last.jid)) =>
       /\ Succeeded
       /\ last.jid \in get_jobs(store, Self)[last.status]
       /\ \A sts \in JobStatus \ {last.status} :
             last.jid \notin get_jobs(store, Self)[sts]

C12_Witness ==
    /\ last.op = "set_status"
    /\ last.jid = 1
    /\ last.status = "IDLE"
    /\ last.fields = EmptyDict
    /\ last.jid \in get_jobs(last.before, Self)["DONE"]
    /\ last.jid \notin get_jobs(last.before, Self)["IDLE"]
    /\ Succeeded
    /\ last.jid \in get_jobs(store, Self)["IDLE"]

\* C13: set_status on a job id that has no point under the controller's
\* (task, campaign, block) exits with 'Job not found' and leaves the store as
\* it was, also when the job id has points under another task; a set_status
\* call never adds a point to a series that had no point before the call.
C13_NotSeeded ==
    last.op = "set_status" =>
       /\ (/\ last.jid # None
           /\ ~ \E p \in last.before : p.tags = tags_of(Self, last.jid)) =>
             /\ last.out.raised = "SystemExit"
             /\ last.out.ret = "Job not found"
             /\ last.written = <<>>
             /\ store = last.before
       /\ \A p \in store : \E q \in last.before : q.tags = p.tags

C13_Witness ==
    /\ last.op = "set_status"
    /\ last.jid = 1
    /\ \E p \in last.before : p.tags = tags_of(Other, 1)
    /\ \E p \in last.before : p.tags = tags_of(Self, 2)
    /\ ~ \E p \in last.before : p.tags = tags_of(Self, 1)
    /\ last.out.raised = "SystemExit"
    /\ last.out.ret = "Job not found"
    /\ store = last.before

\* C14: get_idle, get_running, get_failed and get_done return the list that
\* get_jobs() holds under IDLE, RUNNING, FAILED and DONE.
C14_SameList ==
    last.op \in {"get_idle", "get_running", "get_failed", "get_done"} =>
       /\ last.out.raised = ""
       /\ last.out.ret = get_jobs(last.before, Self)[last.status]

\* C15: task_end_time() returns nothing when not every job of the task is
\* DONE (a task without jobs included) and the timestamp of the most recent
\* DONE point when every job is DONE.
C15_EndTime ==
    last.op = "task_end_time" =>
       LET ids == group_by_id(last.before, Self)
           pts(jid) == where_job(last.before, Self, jid)
           all_done == /\ ids # {}
                       /\ \A jid \in ids : last_value(pts(jid), "DONE") = 1
           done_pts == {p \in where_task(last.before, Self) : p.fields["DONE"] = 1}
           end == CHOOSE t \in {p.time : p \in done_pts} :
                     \A p \in done_pts : p.time <= t
       IN  /\ last.out.raised = ""
           /\ last.out.ret = IF all_done THEN <<end>> ELSE <<>>

\* C17: a successful set_status call adds one point to the job's points and
\* leaves every point that was in the store as it was, also when the call's
\* timestamp is that of the job's previous write.
C17_AppendOnly ==
    (last.op = "set_status" /\ Succeeded) =>
       /\ last.before \subseteq store
       /\ Cardinality(where_job(store, Self, last.jid)) =
             Cardinality(where_job(last.before, Self, last.jid)) + 1

\* C16: sanity_check(data) returns False if and only if some point of data
\* has a field key that is also one of its tag keys; it returns True for the
\* empty list, and the store is as it was.
C16_TagKeyInFields ==
    last.op = "sanity_check" =>
       /\ last.out.raised = ""
       /\ (last.out.ret = FALSE) <=>
             \E i \in 1..Len(last.data) :
                DOMAIN last.data[i].fields \cap DOMAIN last.data[i].tags # {}
       /\ last.data = <<>> => last.out.ret = TRUE
       /\ store = last.before

C16_Witness ==
    /\ last.op = "sanity_check"
    /\ Len(last.data) = 2
    /\ DOMAIN last.data[1].fields \cap DOMAIN last.data[1].tags = {}
    /\ "task" \in DOMAIN last.data[2].fields
    /\ last.out = Return(FALSE)

\* C18: when two processes have run set_status concurrently for the same
\* job with different statuses and both calls have written, get_jobs() and
\* get_job(last=true) report the status of the call that wrote last.
C18_LastWriteWins ==
    (/\ AllDone
     /\ \A p \in ProcIds : procs.call[p].op = "set_status"
     /\ procs.call[1].jid = procs.call[2].jid
     /\ procs.call[1].status # procs.call[2].status
     /\ Len(procs.log) = 2) =>
       LET jid == procs.call[1].jid
           status == procs.call[procs.log[2]].status
       IN  /\ jid \in get_jobs(store, Self)[status]
           /\ get_job_last(store, Self, jid)[1][status] = 1

\* C19: when two processes have run create_task(jids, recreate=false)
\* concurrently on a task that had no point, at most one of them has
\* written and the other has exited with 'Task already exist'.
C19_OneCreates ==
    (/\ AllDone
     /\ where_task(procs.store0, Self) = {}
     /\ \A p \in ProcIds : /\ procs.call[p].op = "create_task"
                           /\ ~ procs.call[p].recreate
                           /\ Len(procs.call[p].jids) > 0) =>
       /\ Len(procs.log) <= 1
       /\ \E p \in ProcIds : procs.out[p] = Exit("Task already exist")

\* C20: when a set_status call and a create_task(jids, recreate=true) call
\* have run concurrently and both are over, every job id with a point of the
\* task is one of jids, and no point and no auxiliary field value that was
\* in the store before the delete is left.
C20_OnlyNewJobs ==
    \A p \in ProcIds, q \in ProcIds :
       (/\ AllDone
        /\ procs.call[p].op = "create_task"
        /\ procs.call[p].recreate
        /\ procs.out[p] = Return(TRUE)
        /\ procs.call[q].op = "set_status") =>
          /\ group_by_id(store, Self) \subseteq
                {procs.call[p].jids[i] : i \in 1..Len(procs.call[p].jids)}
          /\ where_task(store, Self) \cap procs.store0 = {}
          /\ \A x \in where_task(store, Self) : "nevt" \notin DOMAIN x.fields

====
